---- MODULE Spec2Model ----
(***************************************************************************)
(* A model of docs/scrape_help.py: the documentation scraper that turns    *)
(* `conda <command> --help` into manual pages, HTML and rst fragments.     *)
(*                                                                         *)
(* Text is modelled as a sequence of tokens.  A command name is a sequence *)
(* of words separated by the one-character tokens " " and "-", so that     *)
(* command.replace(" ", "-") is an operation on the sequence and two names *)
(* that differ only in the separator are different names with the same     *)
(* file name.                                                              *)
(*                                                                         *)
(* Spec      main() with gen_command executed statement by statement, for  *)
(*           short explicit argument lists.                                *)
(* SpecPool  main() with gen_command executed as one step, for argument    *)
(*           lists around the pool size.                                   *)
(* SpecReplace   the replacement loop of generate_man on the text of a     *)
(*           page, for the tables man_replacements builds.                 *)
(* SpecDiscover  conda_commands and external_commands on help texts.       *)
(***************************************************************************)
EXTENDS Integers, Sequences, FiniteSets, TLC

VARIABLES
    argv,       \* sys.argv[1:]
    commands,   \* main: the resolved command list (line 253)
    main,       \* the orchestrating thread: [pc, k, pos]
    futures,    \* executor.map: one record per submitted gen_command call
    holders,    \* open file handles: [path, task, mode]
    written,    \* completed writes: [path, by]
    rst,        \* write_rst calls made so far: [command, path]
    exit,       \* the process's end: [done, status, error]
    info,       \* what `conda info --json` reports
    page,       \* generate_man's replacement loop: [pc, input, manpage, replacements, k]
    help,       \* conda_help(): the lines of `conda --help`
    scan        \* conda_commands / external_commands in progress

mainVars == <<argv, commands, main, futures, holders, written, rst, exit>>

replaceVars == <<info, page>>

discoverVars == <<help, scan>>

vars == <<mainVars, replaceVars, discoverVars>>

----------------------------------------------------------------------------
(* Bounds of the model. *)

\* The longest explicit argument list of Spec.
MaxArgs == 2

\* The longest explicit argument list of SpecPool (two more than the pool holds).
MaxPoolArgs == 12

----------------------------------------------------------------------------
(* Program constants. *)

\* ThreadPoolExecutor(10)
max_workers == 10

\* retries = 5
retries == 5

core_commands == << >>

build_commands ==
    << <<"build">>,
       <<"convert">>,
       <<"develop">>,
       <<"index">>,
       <<"inspect">>,
       <<"inspect", " ", "channels">>,
       <<"inspect", " ", "linkages">>,
       <<"inspect", " ", "objects">>,
       <<"metapackage">>,
       <<"render">>,
       <<"skeleton">>,
       <<"skeleton", " ", "cpan">>,
       <<"skeleton", " ", "cran">>,
       <<"skeleton", " ", "luarocks">>,
       <<"skeleton", " ", "pypi">> >>

manpath == <<"build", "man">>

rstpath == <<"source", "commands">>

----------------------------------------------------------------------------
(* Helpers. *)

Range(s) == {s[k] : k \in 1..Len(s)}

\* str.replace(old, new) for a one-token `old`: every occurrence is replaced.
ReplaceToken(s, old, new) ==
    [k \in 1..Len(s) |-> IF s[k] = old THEN new ELSE s[k]]

\* command.replace(" ", "-")
command_file(command) == ReplaceToken(command, " ", "-")

\* join(manpath, f'conda-{command.replace(" ", "-")}.1')
ManPath(command) ==
    [dir |-> manpath, name |-> <<"conda", "-">> \o command_file(command) \o <<".1">>]

\* join(manpath, f"conda-{command_file}.html")
HtmlPath(command) ==
    [dir |-> manpath, name |-> <<"conda", "-">> \o command_file(command) \o <<".html">>]

\* write_rst: rp = rstpath; if sep: rp = join(rp, sep); join(rp, f"conda-{command_file}.rst")
RstPath(command, sep) ==
    [dir  |-> IF sep # "None" THEN rstpath \o <<sep>> ELSE rstpath,
     name |-> <<"conda", "-">> \o command_file(command) \o <<".rst">>]

\* sys.argv[1:] or core_commands + build_commands
ResolveCommands(args) ==
    IF args # << >> THEN args ELSE core_commands \o build_commands

\* A fragment list that takes every resolved command.
RstCommands_All(cmds) == cmds

\* [c for c in build_commands if c in commands]
RstCommands(cmds) ==
    LET In(c) == c \in Range(cmds)
    IN  SelectSeq(build_commands, In)

----------------------------------------------------------------------------
(* External processes.  A finished process is [returncode, out]: its exit   *)
(* status and whether it printed anything ("" or "text").                   *)

ProcessOutcomes ==
    { [returncode |-> 0, out |-> "text"],
      [returncode |-> 0, out |-> ""],
      [returncode |-> 1, out |-> ""],
      [returncode |-> 1, out |-> "text"] }

\* A run_command that raises on a non-zero exit, as check_output does.
run_command_checked(p) ==
    [raised |-> p.returncode # 0, out |-> p.out]

\* run_command: prints a line on stderr after a non-zero exit and returns the
\* output whatever the exit status; it never raises.
run_command(p) ==
    [raised |-> FALSE, out |-> p.out]

\* str_check_output / check_output: raise CalledProcessError on a non-zero exit.
str_check_output(p) ==
    [raised |-> p.returncode # 0, out |-> p.out]

NoError == [type |-> "None", command |-> << >>]

\* sys.exit(f"Error: Could not get help for conda {command}")
SystemExit(command) == [type |-> "SystemExit", command |-> command]

CalledProcessError == [type |-> "CalledProcessError", command |-> << >>]

\* json.loads of an empty document
JSONDecodeError == [type |-> "JSONDecodeError", command |-> << >>]

FileNotFoundError == [type |-> "FileNotFoundError", command |-> << >>]

----------------------------------------------------------------------------
(* The state of one gen_command call. *)

\* executor.submit: a pending future; the locals of generate_man are not yet set.
NewFuture ==
    [pc       |-> "pending",
     retries  |-> 0,
     manpage  |-> "",
     version  |-> "unset",      \* while in the retry loop, how `conda --version`
                                \* ended: "ok" or "failed"; else "unset"
     calls    |-> 0,            \* help2man invocations of the retry loop in progress
     runs     |-> 0,            \* how often a worker entered gen_command for it
     error    |-> NoError]

Tasks == 1..Len(futures)

\* A result taken from a future as soon as a worker has started it.
Finished_OrStarted(i) == futures[i].pc # "pending"

Finished(i) == futures[i].pc \in {"done", "raised"}

Running(i) == futures[i].pc \notin {"pending", "cancelled", "done", "raised"}

RunningTasks == {i \in Tasks : Running(i)}

\* The first future still in the work queue.
NextQueued(i) ==
    /\ i \in Tasks
    /\ futures[i].pc = "pending"
    /\ \A j \in 1..(i - 1) : futures[j].pc # "pending"

Set(i, f) == futures' = [futures EXCEPT ![i] = f]

Raise(i, e) == Set(i, [futures[i] EXCEPT !.pc = "raised", !.error = e])

----------------------------------------------------------------------------
(* The worker threads of ThreadPoolExecutor(10).  A worker takes the first  *)
(* queued future and runs gen_command(command) on it; a cancelled future is *)
(* skipped.  At most max_workers threads exist, so at most max_workers      *)
(* calls run at once.                                                       *)

\* A pool that starts a queued call whatever the number of calls running.
Start_Unbounded(i) ==
    /\ NextQueued(i)
    /\ Set(i, [futures[i] EXCEPT !.pc = "version", !.runs = @ + 1])
    /\ UNCHANGED <<argv, commands, main, holders, written, rst, exit, replaceVars, discoverVars>>

Start(i) ==
    /\ NextQueued(i)
    /\ Cardinality(RunningTasks) < max_workers
    /\ Set(i, [futures[i] EXCEPT !.pc = "version", !.runs = @ + 1])
    /\ UNCHANGED <<argv, commands, main, holders, written, rst, exit, replaceVars, discoverVars>>

\* generate_man: conda_version = run_command(["conda", "--version"], include_stderr=True)
\*               manpage = ""; retries = 5
Version(i) ==
    /\ i \in Tasks
    /\ futures[i].pc = "version"
    /\ \E p \in ProcessOutcomes :
         LET r == run_command(p)
         IN  IF r.raised
             THEN Raise(i, CalledProcessError)
             ELSE Set(i, [futures[i] EXCEPT
                            !.pc = "help2man",
                            !.version = IF p.returncode = 0 THEN "ok" ELSE "failed",
                            !.manpage = "",
                            !.retries = retries])
    /\ UNCHANGED <<argv, commands, main, holders, written, rst, exit, replaceVars, discoverVars>>

\* A retry loop that gives up one invocation early.
LoopContinues_OneLess(f) == f.manpage = "" /\ f.retries > 1

\* while not manpage and retries:
LoopContinues(f) == f.manpage = "" /\ f.retries # 0

\* manpage = run_command(["help2man", ...]); retries -= 1
Help2man(i) ==
    /\ i \in Tasks
    /\ futures[i].pc = "help2man"
    /\ LoopContinues(futures[i])
    /\ \E r \in {run_command(p) : p \in ProcessOutcomes} :
             IF r.raised
             THEN Raise(i, CalledProcessError)
             ELSE Set(i, [futures[i] EXCEPT
                            !.manpage = r.out,
                            !.retries = @ - 1,
                            !.calls   = @ + 1])
    /\ UNCHANGED <<argv, commands, main, holders, written, rst, exit, replaceVars, discoverVars>>

\* if not manpage: sys.exit(f"Error: Could not get help for conda {command}")
ExitIfEmpty(i) ==
    /\ i \in Tasks
    /\ futures[i].pc = "help2man"
    /\ ~LoopContinues(futures[i])
    /\ IF futures[i].manpage = ""
       THEN Set(i, [futures[i] EXCEPT !.pc = "raised", !.version = "unset",
                                      !.error = SystemExit(commands[i])])
       ELSE Set(i, [futures[i] EXCEPT !.pc = "replace", !.version = "unset",
                                      !.retries = 0, !.calls = 0])
    /\ UNCHANGED <<argv, commands, main, holders, written, rst, exit, replaceVars, discoverVars>>

\* replacements = man_replacements()
\* for text in replacements: manpage = manpage.replace(text, replacements[text])
\* (the text of the page is modelled in SpecReplace; here it stays non-empty)
Replace(i) ==
    /\ i \in Tasks
    /\ futures[i].pc = "replace"
    /\ \E p \in ProcessOutcomes :
         LET r == str_check_output(p)
         IN  IF r.raised
             THEN Raise(i, CalledProcessError)
             ELSE IF r.out = ""
             THEN Raise(i, JSONDecodeError)
             ELSE Set(i, [futures[i] EXCEPT !.pc = "open_man"])
    /\ UNCHANGED <<argv, commands, main, holders, written, rst, exit, replaceVars, discoverVars>>

\* with open(join(manpath, ...), "w") as f:
OpenMan(i) ==
    /\ i \in Tasks
    /\ futures[i].pc = "open_man"
    /\ holders' = holders \cup
         {[path |-> ManPath(commands[i]), task |-> i, mode |-> "w"]}
    /\ Set(i, [futures[i] EXCEPT !.pc = "write_man"])
    /\ UNCHANGED <<argv, commands, main, written, rst, exit, replaceVars, discoverVars>>

\* f.write(manpage), the file is closed and generate_man returns
WriteMan(i) ==
    /\ i \in Tasks
    /\ futures[i].pc = "write_man"
    /\ holders' = holders \
         {[path |-> ManPath(commands[i]), task |-> i, mode |-> "w"]}
    /\ written' = written \cup {[path |-> ManPath(commands[i]), by |-> i]}
    /\ Set(i, [futures[i] EXCEPT !.pc = "popen_man", !.manpage = ""])
    /\ UNCHANGED <<argv, commands, main, rst, exit, replaceVars, discoverVars>>

\* generate_html: man = Popen(["man", abspath(join(manpath, ...))], stdout=PIPE)
PopenMan(i) ==
    /\ i \in Tasks
    /\ futures[i].pc = "popen_man"
    /\ holders' = holders \cup
         {[path |-> ManPath(commands[i]), task |-> i, mode |-> "r"]}
    /\ Set(i, [futures[i] EXCEPT !.pc = "man2html"])
    /\ UNCHANGED <<argv, commands, main, written, rst, exit, replaceVars, discoverVars>>

\* htmlpage = check_output(["man2html", ...], stdin=man.stdout)
Man2html(i) ==
    /\ i \in Tasks
    /\ futures[i].pc = "man2html"
    /\ holders' = holders \
         {[path |-> ManPath(commands[i]), task |-> i, mode |-> "r"]}
    /\ \E p \in ProcessOutcomes :
         LET r == str_check_output(p)
         IN  IF r.raised
             THEN Raise(i, CalledProcessError)
             ELSE Set(i, [futures[i] EXCEPT !.pc = "open_html"])
    /\ UNCHANGED <<argv, commands, main, written, rst, exit, replaceVars, discoverVars>>

\* with open(join(manpath, f"conda-{command_file}.html"), "wb") as f:
OpenHtml(i) ==
    /\ i \in Tasks
    /\ futures[i].pc = "open_html"
    /\ holders' = holders \cup
         {[path |-> HtmlPath(commands[i]), task |-> i, mode |-> "w"]}
    /\ Set(i, [futures[i] EXCEPT !.pc = "write_html"])
    /\ UNCHANGED <<argv, commands, main, written, rst, exit, replaceVars, discoverVars>>

\* f.write(htmlpage), the file is closed and gen_command returns
WriteHtml(i) ==
    /\ i \in Tasks
    /\ futures[i].pc = "write_html"
    /\ holders' = holders \
         {[path |-> HtmlPath(commands[i]), task |-> i, mode |-> "w"]}
    /\ written' = written \cup {[path |-> HtmlPath(commands[i]), by |-> i]}
    /\ Set(i, [futures[i] EXCEPT !.pc = "done"])
    /\ UNCHANGED <<argv, commands, main, rst, exit, replaceVars, discoverVars>>

----------------------------------------------------------------------------
(* The orchestrating thread: main(). *)

StillRunning == [done |-> FALSE, status |-> 0, error |-> NoError]

\* commands = sys.argv[1:] or core_commands + build_commands
Resolve ==
    /\ main.pc = "start"
    /\ commands' = ResolveCommands(argv)
    /\ main' = [pc |-> "submit", k |-> 1, pos |-> 0]
    /\ UNCHANGED <<argv, futures, holders, written, rst, exit, replaceVars, discoverVars>>

\* executor.map: fs = [self.submit(fn, *args) for args in zip(*iterables)]
Submit ==
    /\ main.pc = "submit"
    /\ futures' = Append(futures, NewFuture)
    /\ main' = IF main.k = Len(commands)
               THEN [pc |-> "iterate", k |-> 1, pos |-> 0]
               ELSE [pc |-> "submit", k |-> main.k + 1, pos |-> 0]
    /\ UNCHANGED <<argv, commands, holders, written, rst, exit, replaceVars, discoverVars>>

\* list(...): the results are taken in submission order, each one waited for.
\* A result that is an exception is raised here; after the last result the
\* with block ends (every future is done) and the rst loop begins.
Observe ==
    /\ main.pc = "iterate"
    /\ Finished(main.k)
    /\ IF futures[main.k].pc = "raised"
       THEN /\ main' = IF main.k = Len(futures)
                       THEN [pc |-> "shutdown", k |-> 0, pos |-> main.k]
                       ELSE [pc |-> "cancel", k |-> Len(futures), pos |-> main.k]
            /\ exit' = [exit EXCEPT !.error = futures[main.k].error]
       ELSE /\ main' = IF main.k = Len(futures)
                       THEN [pc |-> "rst", k |-> 1, pos |-> 0]
                       ELSE [pc |-> "iterate", k |-> main.k + 1, pos |-> 0]
            /\ exit' = exit
    /\ UNCHANGED <<argv, commands, futures, holders, written, rst, replaceVars, discoverVars>>

\* result_iterator's finally: for future in fs: future.cancel()
\* fs holds the futures not yet taken, last first; cancel() succeeds on a
\* future no worker has started and does nothing to the others.
Cancel ==
    /\ main.pc = "cancel"
    /\ IF futures[main.k].pc = "pending"
       THEN Set(main.k, [futures[main.k] EXCEPT !.pc = "cancelled"])
       ELSE futures' = futures
    /\ main' = IF main.k - 1 > main.pos
               THEN [main EXCEPT !.k = main.k - 1]
               ELSE [main EXCEPT !.pc = "shutdown", !.k = 0]
    /\ UNCHANGED <<argv, commands, holders, written, rst, exit, replaceVars, discoverVars>>

\* A pool left without waiting for its workers: shutdown(wait=False).
Shutdown_NoWait ==
    /\ main.pc = "shutdown"
    /\ main' = [pc |-> "exited", k |-> 0, pos |-> main.pos]
    /\ exit' = [exit EXCEPT !.done = TRUE, !.status = 1]
    /\ UNCHANGED <<argv, commands, futures, holders, written, rst, replaceVars, discoverVars>>

\* ThreadPoolExecutor.__exit__: shutdown(wait=True) joins the workers, then the
\* exception leaves main() and the interpreter exits with status 1.
Shutdown ==
    /\ main.pc = "shutdown"
    /\ \A i \in Tasks : futures[i].pc \in {"done", "raised", "cancelled"}
    /\ main' = [pc |-> "exited", k |-> 0, pos |-> main.pos]
    /\ exit' = [exit EXCEPT !.done = TRUE, !.status = 1]
    /\ UNCHANGED <<argv, commands, futures, holders, written, rst, replaceVars, discoverVars>>

\* A main() that passes a category: write_rst(command, sep="build").
main_sep_build == "build"

\* The category main() passes to write_rst: write_rst(command), so sep=None.
main_sep == "None"

\* for command in [c for c in build_commands if c in commands]: write_rst(command)
\* write_rst reads the HTML file and writes the fragment; a missing HTML file
\* raises FileNotFoundError, which ends the run.
WriteRst ==
    /\ main.pc = "rst"
    /\ main.k <= Len(RstCommands(commands))
    /\ LET command == RstCommands(commands)[main.k]
       IN  IF \E w \in written : w.path = HtmlPath(command)
           THEN /\ rst' = rst \cup {[command |-> command,
                                     path    |-> RstPath(command, main_sep),
                                     html    |-> {w.by : w \in {x \in written :
                                                     x.path = HtmlPath(command)}},
                                     open    |-> {h.task : h \in {x \in holders :
                                                     x.path = HtmlPath(command)}}]}
                /\ main' = [main EXCEPT !.k = main.k + 1]
                /\ exit' = exit
           ELSE /\ rst' = rst
                /\ main' = [main EXCEPT !.pc = "exited"]
                /\ exit' = [done |-> TRUE, status |-> 1, error |-> FileNotFoundError]
    /\ UNCHANGED <<argv, commands, futures, holders, written, replaceVars, discoverVars>>

\* main() returns None: sys.exit(main()) ends the process with status 0.
Return ==
    /\ main.pc = "rst"
    /\ main.k > Len(RstCommands(commands))
    /\ main' = [main EXCEPT !.pc = "exited"]
    /\ exit' = [exit EXCEPT !.done = TRUE, !.status = 0]
    /\ UNCHANGED <<argv, commands, futures, holders, written, rst, replaceVars, discoverVars>>

----------------------------------------------------------------------------
(* Spec: short explicit argument lists, gen_command statement by statement. *)

\* The names given on the command line: two commands of the build-tooling
\* list, and a name outside the list with the file name of one of them.
ArgNames ==
    { <<"build">>,
      <<"inspect", " ", "channels">>,
      <<"inspect", "-", "channels">> }

SeqsUpTo(S, n) == UNION {[1..m -> S] : m \in 1..n}

\* No replacement loop and no discovery in progress.
IdleText ==
    /\ info = [default_prefix |-> << >>, envs_dirs |-> << >>, user_rc_path |-> << >>,
               sys_rc_path |-> << >>, root_prefix |-> << >>]
    /\ page = [pc |-> "idle", input |-> << >>, manpage |-> << >>,
               replacements |-> << >>, k |-> 0]

NoScan ==
    [fn |-> "None", pc |-> "idle", k |-> 0, start |-> FALSE, commands |-> << >>,
     command_help |-> << >>, fetching |-> {}, failed |-> FALSE, error |-> "None"]

IdleDiscover ==
    /\ help = << >>
    /\ scan = NoScan

InitMain ==
    /\ IdleText
    /\ IdleDiscover
    /\ commands = << >>
    /\ main = [pc |-> "start", k |-> 0, pos |-> 0]
    /\ futures = << >>
    /\ holders = {}
    /\ written = {}
    /\ rst = {}
    /\ exit = StillRunning

Init ==
    /\ argv \in SeqsUpTo(ArgNames, MaxArgs)
    /\ InitMain

SpecIds == 1..MaxArgs

Next ==
    \/ Resolve
    \/ Submit
    \/ Observe
    \/ Cancel
    \/ Shutdown
    \/ WriteRst
    \/ Return
    \/ \E i \in SpecIds : Start(i)
    \/ \E i \in SpecIds : Version(i)
    \/ \E i \in SpecIds : Help2man(i)
    \/ \E i \in SpecIds : ExitIfEmpty(i)
    \/ \E i \in SpecIds : Replace(i)
    \/ \E i \in SpecIds : OpenMan(i)
    \/ \E i \in SpecIds : WriteMan(i)
    \/ \E i \in SpecIds : PopenMan(i)
    \/ \E i \in SpecIds : Man2html(i)
    \/ \E i \in SpecIds : OpenHtml(i)
    \/ \E i \in SpecIds : WriteHtml(i)

Spec == Init /\ [][Next]_vars

----------------------------------------------------------------------------
(* SpecPool: argument lists around the pool size, gen_command as one step.  *)
(* The call's result is computed from what the external programs answer, by *)
(* the statements of generate_man and generate_html in their order.         *)

\* The retry loop of generate_man, run to its end on the outputs help2man gives.
RECURSIVE RetryLoop(_, _)
RetryLoop(f, outs) ==
    IF LoopContinues(f)
    THEN RetryLoop([f EXCEPT !.manpage = run_command(Head(outs)).out,
                             !.retries = @ - 1,
                             !.calls   = @ + 1],
                   Tail(outs))
    ELSE f

\* gen_command(command): generate_man(command); generate_html(command)
\* a: what `conda --version`, the help2man runs, `conda info --json` and
\* man2html answer.  The result: the future, and which files were written.
gen_command(f, command, a) ==
    LET entered == [f EXCEPT !.version = IF a.version.returncode = 0
                                         THEN "ok" ELSE "failed",
                             !.manpage = "",
                             !.retries = retries]
        looped  == RetryLoop(entered, a.help2man)
        left    == [looped EXCEPT !.version = "unset", !.retries = 0, !.calls = 0]
        back    == [left EXCEPT !.manpage = ""]
        condaInfo == str_check_output(a.info)
        man2html  == str_check_output(a.man2html)
    IN  IF looped.manpage = ""
        THEN [future |-> [looped EXCEPT !.pc = "raised", !.version = "unset",
                                        !.error = SystemExit(command)],
              man |-> FALSE, html |-> FALSE]
        ELSE IF condaInfo.raised
        THEN [future |-> [left EXCEPT !.pc = "raised", !.error = CalledProcessError],
              man |-> FALSE, html |-> FALSE]
        ELSE IF condaInfo.out = ""
        THEN [future |-> [left EXCEPT !.pc = "raised", !.error = JSONDecodeError],
              man |-> FALSE, html |-> FALSE]
        ELSE IF man2html.raised
        THEN [future |-> [back EXCEPT !.pc = "raised", !.error = CalledProcessError],
              man |-> TRUE, html |-> FALSE]
        ELSE [future |-> [back EXCEPT !.pc = "done"],
              man |-> TRUE, html |-> TRUE]

Answered == [returncode |-> 0, out |-> "text"]

Silent == [returncode |-> 0, out |-> ""]

\* The commands help2man may fail on in SpecPool: one that starts at once and
\* one that waits for a worker.
Unhelpful == {<<"convert">>, <<"skeleton">>}

\* The answers of SpecPool: every program works, but for an unhelpful command
\* help2man may print nothing, however often it is asked.
PoolAnswers(command) ==
    { [version |-> Answered, help2man |-> [k \in 1..retries |-> h],
       info |-> Answered, man2html |-> Answered] :
      h \in {Answered} \cup (IF command \in Unhelpful THEN {Silent} ELSE {}) }

GenCommand(i) ==
    /\ i \in Tasks
    /\ futures[i].pc = "version"
    /\ \E a \in PoolAnswers(commands[i]) :
         LET r == gen_command(futures[i], commands[i], a)
         IN  /\ Set(i, r.future)
             /\ written' = written
                  \cup (IF r.man  THEN {[path |-> ManPath(commands[i]), by |-> i]}
                                  ELSE {})
                  \cup (IF r.html THEN {[path |-> HtmlPath(commands[i]), by |-> i]}
                                  ELSE {})
    /\ UNCHANGED <<argv, commands, main, holders, rst, exit, replaceVars, discoverVars>>

\* The first n commands of the build-tooling list, given explicitly.
InitPool ==
    /\ argv \in {SubSeq(build_commands, 1, n) : n \in 1..MaxPoolArgs}
    /\ InitMain

PoolIds == 1..MaxPoolArgs

NextPool ==
    \/ Resolve
    \/ Submit
    \/ Observe
    \/ Cancel
    \/ Shutdown
    \/ WriteRst
    \/ Return
    \/ \E i \in PoolIds : Start(i)
    \/ \E i \in PoolIds : GenCommand(i)

SpecPool == InitPool /\ [][NextPool]_vars

----------------------------------------------------------------------------
(* SpecReplace: the replacement loop of generate_man on the text of a page. *)
(* Text is a sequence of tokens: a path is the sequence of its segments     *)
(* ("/r/envs" is <<"/r", "/envs">>), and a replacement value is one token.  *)

\* The longest page text of SpecReplace, in tokens.
MaxText == 3

\* os.pathsep
pathsep == ":"

\* str.replace(old, new): the occurrences of old are found from the left,
\* without overlap; an empty old matches before every token and at the end.
RECURSIVE str_replace(_, _, _)
str_replace(s, old, new) ==
    IF old = << >>
    THEN IF s = << >>
         THEN new
         ELSE new \o <<Head(s)>> \o str_replace(Tail(s), old, new)
    ELSE IF Len(s) < Len(old)
    THEN s
    ELSE IF SubSeq(s, 1, Len(old)) = old
    THEN new \o str_replace(SubSeq(s, Len(old) + 1, Len(s)), old, new)
    ELSE <<Head(s)>> \o str_replace(Tail(s), old, new)

\* pathsep.join(info["envs_dirs"])
RECURSIVE join(_, _)
join(sep, dirs) ==
    IF dirs = << >> THEN << >>
    ELSE IF Len(dirs) = 1 THEN dirs[1]
    ELSE dirs[1] \o <<sep>> \o join(sep, Tail(dirs))

\* OrderedDict(pairs): a key keeps the place of its first pair and takes the
\* value of its last one.
RECURSIVE OrderedDict(_)
OrderedDict(pairs) ==
    IF pairs = << >>
    THEN << >>
    ELSE LET front == OrderedDict(SubSeq(pairs, 1, Len(pairs) - 1))
             last  == pairs[Len(pairs)]
         IN  IF \E k \in 1..Len(front) : front[k].key = last.key
             THEN [k \in 1..Len(front) |->
                     IF front[k].key = last.key THEN last ELSE front[k]]
             ELSE Append(front, last)

man_replacements(i) ==
    OrderedDict(<<
        [key |-> i.default_prefix,            value |-> <<"default prefix">>],
        [key |-> join(pathsep, i.envs_dirs),  value |-> <<"envs dirs">>],
        [key |-> i.user_rc_path,              value |-> <<"\\fI\\,user .condarc path\\/\\fP">>],
        [key |-> i.sys_rc_path,               value |-> <<"\\fI\\,system .condarc path\\/\\fP">>],
        [key |-> i.root_prefix,               value |-> <<"root prefix">>] >>)

\* replacements = man_replacements()
ManReplacements ==
    /\ page.pc = "replacements"
    /\ page' = [page EXCEPT !.replacements = man_replacements(info),
                            !.k = 1,
                            !.pc = "loop"]
    /\ UNCHANGED <<mainVars, info, discoverVars>>

\* for text in replacements: manpage = manpage.replace(text, replacements[text])
ReplaceText ==
    /\ page.pc = "loop"
    /\ page.k <= Len(page.replacements)
    /\ page' = [page EXCEPT
                  !.manpage = str_replace(@, page.replacements[page.k].key,
                                             page.replacements[page.k].value),
                  !.k = @ + 1]
    /\ UNCHANGED <<mainVars, info, discoverVars>>

\* The loop is over: the page is the text generate_man writes to the file.
ReplaceDone ==
    /\ page.pc = "loop"
    /\ page.k > Len(page.replacements)
    /\ page' = [page EXCEPT !.pc = "write"]
    /\ UNCHANGED <<mainVars, info, discoverVars>>

\* What `conda info --json` reports: the root prefix /r; the default prefix is
\* the root prefix (the base environment is active) or an environment under
\* /r/envs; one or two environment directories; the two .condarc paths.
Infos ==
    [default_prefix : {<<"/r">>, <<"/r", "/envs", "/e">>},
     envs_dirs      : {<< <<"/r", "/envs">> >>, << <<"/r", "/envs">>, <<"~", "/envs">> >>},
     user_rc_path   : {<<"~", "/.condarc">>},
     sys_rc_path    : {<<"/r", "/.condarc">>},
     root_prefix    : {<<"/r">>}]

TextTokens == {"/r", "/envs", "/e", "~", "/.condarc", ":", "x"}

\* The non-empty texts help2man may return.
Texts == UNION {[1..m -> TextTokens] : m \in 1..MaxText}

IdleMain ==
    /\ argv = << >>
    /\ commands = << >>
    /\ main = [pc |-> "idle", k |-> 0, pos |-> 0]
    /\ futures = << >>
    /\ holders = {}
    /\ written = {}
    /\ rst = {}
    /\ exit = StillRunning

InitReplace ==
    /\ IdleMain
    /\ IdleDiscover
    /\ info \in Infos
    /\ \E t \in Texts :
         page = [pc |-> "replacements", input |-> t, manpage |-> t,
                 replacements |-> << >>, k |-> 0]

NextReplace ==
    \/ ManReplacements
    \/ ReplaceText
    \/ ReplaceDone

SpecReplace == InitReplace /\ [][NextReplace]_vars

----------------------------------------------------------------------------
(* SpecDiscover: conda_commands and external_commands.  Here a string is    *)
(* the sequence of its characters, a help text the sequence of its lines.   *)

\* The longest `conda --help` text of SpecDiscover, in lines.
MaxLines == 4

\* The column of line[4], counted from 1.
NameColumn == 5

IsSpace(c) == c = " "

\* str.lstrip() / str.strip()
RECURSIVE lstrip(_)
lstrip(s) == IF s # << >> /\ IsSpace(Head(s)) THEN lstrip(Tail(s)) ELSE s

RECURSIVE rstrip(_)
rstrip(s) ==
    IF s # << >> /\ IsSpace(s[Len(s)]) THEN rstrip(SubSeq(s, 1, Len(s) - 1)) ELSE s

strip(s) == rstrip(lstrip(s))

\* The characters of s up to the first c, and those after it.
RECURSIVE UpTo(_, _)
UpTo(s, c) == IF s = << >> \/ Head(s) = c THEN << >> ELSE <<Head(s)>> \o UpTo(Tail(s), c)

After(s, c) == SubSeq(s, Len(UpTo(s, c)) + 2, Len(s))

\* line.split()[0]: the first run of non-blank characters
FirstToken(line) == UpTo(lstrip(line), " ")

\* str.split(","): the pieces between the commas, empty ones included
RECURSIVE split(_, _)
split(s, sep) ==
    IF sep \notin Range(s) THEN <<s>> ELSE <<UpTo(s, sep)>> \o split(After(s, sep), sep)

\* The last place of c in s, or 0.
RECURSIVE rfind(_, _)
rfind(s, c) ==
    IF s = << >> THEN 0
    ELSE IF s[Len(s)] = c THEN Len(s)
    ELSE rfind(SubSeq(s, 1, Len(s) - 1), c)

\* re.compile(r"\s*\{(.*)\}\s*").match(line): the match starts at the start of
\* the line and need not reach its end; (.*) is greedy, so the group runs from
\* the first brace to the last closing one.  The group, or "None".
subcommands_re(line) ==
    LET rest  == lstrip(line)
        close == rfind(rest, "}")
    IN  IF rest # << >> /\ Head(rest) = "{" /\ close > 1
        THEN [matched |-> TRUE, group |-> SubSeq(rest, 2, close - 1)]
        ELSE [matched |-> FALSE, group |-> << >>]

\* "command", "other commands:" and "positional arguments:"
HEADER_COMMAND == <<"c", "o", "m", "m", "a", "n", "d">>

HEADER_OTHER == <<"o", "t", "h", "e", "r", " ", "c", "o", "m", "m", "a", "n", "d", "s", ":">>

HEADER_POSITIONAL ==
    <<"p", "o", "s", "i", "t", "i", "o", "n", "a", "l", " ", "a", "r", "g", "u", "m", "e", "n", "t", "s", ":">>

\* Lines of a `conda --help` text: a usage line, the two headers, a blank
\* line, two command lines (the name at column 4), a continuation line of a
\* description, and an option line that is shorter than the name column.
HelpLines ==
    { <<"u", "s", "a", "g", "e", ":", " ", "c", "o", "n", "d", "a">>,
      <<" ", " ", "c", "o", "m", "m", "a", "n", "d">>,
      <<"o", "t", "h", "e", "r", " ", "c", "o", "m", "m", "a", "n", "d", "s", ":">>,
      << >>,
      <<" ", " ", " ", " ", "b", "u", "i", "l", "d", " ", " ", "d">>,
      <<" ", " ", " ", " ", "i", "n", "d", "e", "x">>,
      <<" ", " ", " ", " ", " ", " ", " ", " ", "d">>,
      <<" ", " ", "-", "h">> }

\* What `conda <command> --help` prints: no positional arguments; a brace set
\* of subcommands; a positional argument that is no brace set.
CommandHelps ==
    { << <<"u", "s", "a", "g", "e">> >>,
      << <<"p", "o", "s", "i", "t", "i", "o", "n", "a", "l", " ", "a", "r", "g", "u", "m", "e", "n", "t", "s", ":">>,
         <<" ", " ", "{", "a", ",", "b", "}">> >>,
      << <<"p", "o", "s", "i", "t", "i", "o", "n", "a", "l", " ", "a", "r", "g", "u", "m", "e", "n", "t", "s", ":">>,
         <<" ", " ", "x">> >> }

\* The header each scan waits for.
Header(fn) ==
    IF fn = "conda_commands"
    THEN HEADER_COMMAND
    ELSE HEADER_OTHER

\* for command in command_help: ... the entries one command's help adds:
\* after the "positional arguments:" line, the next line decides (break).
RECURSIVE SubcommandsOf(_, _, _)
SubcommandsOf(command, lines, start) ==
    IF lines = << >> THEN << >>
    ELSE IF strip(Head(lines)) = HEADER_POSITIONAL
    THEN SubcommandsOf(command, Tail(lines), TRUE)
    ELSE IF start
    THEN LET m == subcommands_re(Head(lines))
         IN  IF m.matched
             THEN LET items == split(m.group, ",")
                  IN  [k \in 1..Len(items) |-> command \o <<" ">> \o items[k]]
             ELSE << >>
    ELSE SubcommandsOf(command, Tail(lines), start)

\* The body of `for line in help.splitlines():` for the line at scan.k.
ScanLine ==
    /\ scan.pc = "scan"
    /\ scan.k <= Len(help)
    /\ LET line == help[scan.k]
       IN  IF strip(line) = Header(scan.fn)
           THEN scan' = [scan EXCEPT !.start = TRUE, !.k = @ + 1]
           ELSE IF ~scan.start
           THEN scan' = [scan EXCEPT !.k = @ + 1]
           ELSE IF line = << >>
           THEN scan' = [scan EXCEPT !.pc = "scanned"]
           ELSE IF Len(line) < NameColumn
           THEN scan' = [scan EXCEPT !.pc = "raised", !.error = "IndexError"]
           ELSE IF line[NameColumn] # " "
           THEN scan' = [scan EXCEPT !.commands = Append(@, FirstToken(line)),
                                     !.k = @ + 1]
           ELSE scan' = [scan EXCEPT !.k = @ + 1]
    /\ UNCHANGED <<mainVars, replaceVars, help>>

\* The lines are exhausted.
ScanEnd ==
    /\ scan.pc = "scan"
    /\ scan.k > Len(help)
    /\ scan' = [scan EXCEPT !.pc = "scanned"]
    /\ UNCHANGED <<mainVars, replaceVars, help>>

\* conda_commands: return commands
ReturnCommands ==
    /\ scan.pc = "scanned"
    /\ scan.fn = "conda_commands"
    /\ scan' = [scan EXCEPT !.pc = "returned"]
    /\ UNCHANGED <<mainVars, replaceVars, help>>

\* external_commands: with ThreadPoolExecutor(len(commands)) as executor:
\* the constructor raises ValueError("max_workers must be greater than 0")
\* for an empty list.
OpenPool ==
    /\ scan.pc = "scanned"
    /\ scan.fn = "external_commands"
    /\ IF Len(scan.commands) <= 0
       THEN scan' = [scan EXCEPT !.pc = "raised", !.error = "ValueError"]
       ELSE scan' = [scan EXCEPT !.pc = "fetch", !.fetching = 1..Len(scan.commands)]
    /\ UNCHANGED <<mainVars, replaceVars, help>>

\* command_help[command] = value: a new key goes to the end, a known key
\* keeps its place.
DictSet(d, key, value) ==
    IF \E k \in 1..Len(d) : d[k].key = key
    THEN [k \in 1..Len(d) |-> IF d[k].key = key THEN [key |-> key, value |-> value]
                                                ELSE d[k]]
    ELSE Append(d, [key |-> key, value |-> value])

\* get_help(command), run by the pool for each command, in any order:
\* command_help[command] = conda_command_help(command); a failing
\* `conda <command> --help` raises CalledProcessError.
GetHelp(j) ==
    /\ scan.pc = "fetch"
    /\ j \in scan.fetching
    /\ \/ \E h \in CommandHelps :
            scan' = [scan EXCEPT
                       !.command_help = DictSet(@, scan.commands[j], h),
                       !.fetching = @ \ {j}]
       \/ scan' = [scan EXCEPT !.failed = TRUE, !.fetching = @ \ {j}]
    /\ UNCHANGED <<mainVars, replaceVars, help>>

\* list(executor.map(get_help, commands)) and the end of the with block: the
\* workers are joined; an exception of a call is raised.
ClosePool ==
    /\ scan.pc = "fetch"
    /\ scan.fetching = {}
    /\ IF scan.failed
       THEN scan' = [scan EXCEPT !.pc = "raised", !.error = "CalledProcessError"]
       ELSE scan' = [scan EXCEPT !.pc = "expand", !.k = 1]
    /\ UNCHANGED <<mainVars, replaceVars, help>>

\* for command in command_help: ... commands.extend(...)
Expand ==
    /\ scan.pc = "expand"
    /\ scan.k <= Len(scan.command_help)
    /\ scan' = [scan EXCEPT
                  !.commands = @ \o SubcommandsOf(scan.command_help[scan.k].key,
                                                  scan.command_help[scan.k].value,
                                                  FALSE),
                  !.k = @ + 1]
    /\ UNCHANGED <<mainVars, replaceVars, help>>

\* external_commands: return commands
ReturnExternal ==
    /\ scan.pc = "expand"
    /\ scan.k > Len(scan.command_help)
    /\ scan' = [scan EXCEPT !.pc = "returned"]
    /\ UNCHANGED <<mainVars, replaceVars, help>>

HelpTexts == UNION {[1..m -> HelpLines] : m \in 1..MaxLines}

InitDiscover ==
    /\ IdleMain
    /\ IdleText
    /\ help \in HelpTexts
    /\ \E fn \in {"conda_commands", "external_commands"} :
         scan = [NoScan EXCEPT !.fn = fn, !.pc = "scan", !.k = 1]

FetchIds == 1..MaxLines

NextDiscover ==
    \/ ScanLine
    \/ ScanEnd
    \/ ReturnCommands
    \/ OpenPool
    \/ \E j \in FetchIds : GetHelp(j)
    \/ ClosePool
    \/ Expand
    \/ ReturnExternal

SpecDiscover == InitDiscover /\ [][NextDiscover]_vars

----------------------------------------------------------------------------
(* Properties of main(), generate_man, generate_html and write_rst. *)

ManWrittenBy(i) == [path |-> ManPath(commands[i]), by |-> i] \in written

HtmlWrittenBy(i) == [path |-> HtmlPath(commands[i]), by |-> i] \in written

InGenerateHtml(i) ==
    futures[i].pc \in {"popen_man", "man2html", "open_html", "write_html", "done"}

\* C1: the retry loop of generate_man.  help2man is invoked again only while
\* every output so far was empty and fewer than 5 invocations were made; the
\* loop is left by the abort only after exactly 5 invocations, all empty, with
\* the error naming the command and no manual page written by the call; it is
\* left normally, without error, right after the first non-empty output, which
\* is invocation k for some k in 1..5.
C1_RetryExactlyFive ==
    /\ [](\A i \in Tasks :
            /\ futures[i].calls <= 5
            /\ futures[i].error.type = "SystemExit"
                 => /\ futures[i].calls = 5
                    /\ futures[i].manpage = ""
                    /\ futures[i].error.command = commands[i]
                    /\ ~ManWrittenBy(i))
    /\ [][\A i \in SpecIds :
            (i \in Tasks /\ futures[i].pc = "help2man") =>
               /\ futures'[i].calls > futures[i].calls
                    => /\ futures[i].manpage = ""
                       /\ futures[i].calls < 5
                       /\ futures'[i].calls = futures[i].calls + 1
               /\ futures'[i].pc = "raised"
                    => /\ futures[i].manpage = ""
                       /\ futures[i].calls = 5
                       /\ futures'[i].error.type = "SystemExit"
               /\ futures[i].manpage # ""
                    => /\ futures[i].calls \in 1..5
                       /\ futures'[i].calls <= futures[i].calls
                       /\ futures'[i].pc \in {"help2man", "replace"}
                       /\ futures'[i].error = NoError
               /\ futures'[i].pc = "replace" => futures[i].manpage # ""]_vars

\* One call aborted after 5 empty outputs while another got its page at the
\* third invocation.
C1_Witness ==
    \E i, j \in Tasks :
        /\ futures[i].pc = "raised"
        /\ futures[i].error = SystemExit(commands[i])
        /\ futures[i].calls = 5
        /\ futures[j].pc = "help2man"
        /\ futures[j].manpage # ""
        /\ futures[j].calls = 3

\* C3: write_rst is called only for commands of the build-tooling list that
\* are in the resolved list; when the rst loop is reached every resolved
\* command, also one outside the build-tooling list, has its manual page and
\* its HTML file written by its own call.
C3_RstOnlyForBuildCommands ==
    /\ \A r \in rst : /\ r.command \in Range(build_commands)
                      /\ r.command \in Range(commands)
    /\ (main.pc = "rst" \/ (exit.done /\ exit.status = 0))
         => \A i \in 1..Len(commands) :
               /\ i \in Tasks
               /\ ManWrittenBy(i)
               /\ HtmlWrittenBy(i)

\* A finished run that processed a command outside the build-tooling list and
\* wrote a fragment for another command.
C3_Witness ==
    /\ exit.done /\ exit.status = 0
    /\ rst # {}
    /\ \E i \in Tasks : /\ commands[i] \notin Range(build_commands)
                        /\ ManWrittenBy(i)
                        /\ HtmlWrittenBy(i)
                        /\ \A r \in rst : r.command # commands[i]

\* C4 as claimed: after a failed `conda --version` help2man is never invoked,
\* so that the call gets no manual page.
C4_VersionFailureIsFatal ==
    \A i \in Tasks :
        futures[i].version = "failed"
          => /\ futures[i].calls = 0
             /\ futures[i].manpage = ""

\* C4 amended: a failed `conda --version` does not abort generate_man.  When
\* run_command returns, whatever the exit status, the call enters the retry
\* loop with 5 retries and no error; the only abort of generate_man is the one
\* after 5 empty help2man outputs.
C4_VersionFailureIsNotFatal ==
    /\ [](\A i \in Tasks :
            /\ futures[i].error.type = "SystemExit" => futures[i].calls = 5
            /\ futures[i].version = "failed"
                 => futures[i].pc = "help2man" /\ futures[i].error = NoError)
    /\ [][\A i \in SpecIds :
            (i \in Tasks /\ futures[i].pc = "version" /\ futures'[i].pc # "version")
               => /\ futures'[i].pc = "help2man"
                  /\ futures'[i].version \in {"ok", "failed"}
                  /\ futures'[i].retries = 5
                  /\ futures'[i].error = NoError]_vars

\* A call whose `conda --version` failed has invoked help2man twice and got
\* the text of its manual page.
C4_Witness ==
    \E i \in Tasks :
        /\ futures[i].version = "failed"
        /\ futures[i].pc = "help2man"
        /\ futures[i].calls = 2
        /\ futures[i].manpage # ""

\* C5 as claimed: every fragment is written into a category subdirectory of
\* source/commands, never into source/commands itself.
C5_FragmentsUnderCategory ==
    \A r \in rst : /\ r.path.dir # <<"source", "commands">>
                   /\ Len(r.path.dir) = 3
                   /\ SubSeq(r.path.dir, 1, 2) = <<"source", "commands">>

\* C5 amended: main() calls write_rst without a category, so every fragment
\* is written directly to source/commands/conda-<command-with-hyphens>.rst.
C5_FragmentsInRoot ==
    \A r \in rst :
        /\ r.path.dir = <<"source", "commands">>
        /\ r.path.name = <<"conda", "-">> \o command_file(r.command) \o <<".rst">>
        /\ " " \notin Range(r.path.name)

\* A fragment was written for a command with a space in its name.
C5_Witness ==
    \E r \in rst : r.command = <<"inspect", " ", "channels">>

NoContention ==
    \A g, h \in holders : g.path = h.path => g.task = h.task

DistinctFileNames ==
    \A i, j \in 1..Len(commands) :
        i # j => command_file(commands[i]) # command_file(commands[j])

\* C8: for every resolved list, also one with repeated names or with names
\* that coincide after replacing spaces with hyphens, no two running calls
\* have the same manual-page or HTML file open.
C8_NoContention == NoContention

\* The contention comes from coinciding file names only: a list whose names
\* are pairwise distinct after replacing spaces with hyphens has none.
NoContentionForDistinctNames == DistinctFileNames => NoContention

\* C9: generate_html of a call runs only after its generate_man has written
\* the manual page; the rst loop is entered, and a fragment written, only when
\* every call of the run is done; the HTML file write_rst reads was completely
\* written by a call for that command and nobody has it open.
C9_PipelineOrder ==
    /\ \A i \in Tasks : InGenerateHtml(i) => ManWrittenBy(i)
    /\ \A i \in Tasks : futures[i].pc = "done" => HtmlWrittenBy(i)
    /\ (main.pc = "rst" \/ rst # {})
         => \A i \in 1..Len(commands) : i \in Tasks /\ futures[i].pc = "done"
    /\ \A r \in rst :
         /\ r.open = {}
         /\ \E i \in r.html : commands[i] = r.command /\ futures[i].pc = "done"

\* A fragment was written in a run of two calls.
C9_Witness ==
    /\ Len(commands) = 2
    /\ \E r \in rst : r.html # {}

\* C10 as claimed: no call is ever cancelled, and a run in which a call raised
\* ends with status 1, every call finished and no fragment written.
C10_NoSiblingCancelled ==
    /\ \A i \in Tasks : futures[i].pc # "cancelled"
    /\ (exit.done /\ \E i \in Tasks : futures[i].pc = "raised")
         => /\ exit.status = 1
            /\ rst = {}
            /\ \A i \in Tasks : Finished(i)

\* C10 amended: when a call raises, the calls already started are not
\* cancelled and run to their end, while calls no worker has started yet may
\* be cancelled and then never run; the error leaves the pool's block only when
\* no call is running; the run ends with status 1 and no fragment is written.
C10_RunningSiblingsFinish ==
    /\ [](\A i \in Tasks : futures[i].pc = "cancelled" => futures[i].runs = 0)
    /\ []((exit.done /\ \E i \in Tasks : futures[i].pc \in {"raised", "cancelled"})
            => /\ exit.status = 1
               /\ exit.error # NoError
               /\ rst = {}
               /\ \A i \in Tasks : futures[i].pc \in {"done", "raised", "cancelled"})
    /\ [][\A i \in SpecIds :
            i \in Tasks =>
               /\ (Running(i) \/ Finished(i)) => futures'[i].pc # "cancelled"
               /\ futures[i].pc = "cancelled" => futures'[i] = futures[i]
               /\ (futures[i].pc # "cancelled" /\ futures'[i].pc = "cancelled")
                    => main.pc = "cancel" /\ exit.error # NoError]_vars

\* The first call raised, the second one was running then and finished, and
\* the run ended with the error.
C10_Witness ==
    /\ exit.done /\ exit.status = 1
    /\ Len(futures) = 2
    /\ futures[1].pc = "raised"
    /\ futures[2].pc = "done"

\* C2 as claimed: in every run each list entry is invoked exactly once, and at
\* most 10 calls run at the same time.
C2_EveryEntryInvokedOnce ==
    /\ Cardinality(RunningTasks) <= 10
    /\ exit.done => \A i \in 1..Len(commands) : i \in Tasks /\ futures[i].runs = 1

\* C2 amended: at most 10 calls run at the same time and no list entry is
\* invoked twice; in a run in which no call raises every list entry is invoked
\* exactly once, so N invocations are made; after a call raised, list entries
\* not yet started are cancelled and not invoked.
C2_InvokedOnceUnlessRaised ==
    /\ Cardinality(RunningTasks) <= 10
    /\ \A i \in Tasks : futures[i].runs <= 1
    /\ \A i \in Tasks : futures[i].runs = 0 <=> futures[i].pc \in {"pending", "cancelled"}
    /\ exit.done =>
         /\ Len(futures) = Len(commands)
         /\ (\A i \in Tasks : futures[i].pc # "raised")
              => \A i \in Tasks : futures[i].runs = 1
         /\ \A i \in Tasks : futures[i].runs = 0 => futures[i].pc = "cancelled"

\* A run of more than 10 entries ended with every entry invoked once.
C2_Witness ==
    /\ Len(commands) > 10
    /\ exit.done /\ exit.status = 0
    /\ \A i \in 1..Len(commands) : i \in Tasks /\ futures[i].runs = 1

----------------------------------------------------------------------------
(* Properties of the replacement loop. *)

KeyTokens == UNION {Range(page.replacements[k].key) : k \in 1..Len(page.replacements)}

Occurs(key, s) ==
    \E a \in 0..Len(s) : a + Len(key) <= Len(s) /\ SubSeq(s, a + 1, a + Len(key)) = key

\* C6: the replacement is a pure substitution.  A key of the table that occurs
\* in the page between text that holds no token of any key is replaced by its
\* value there, also when another key is a part of it; a page in which no key
\* occurs is left as it is.
C6_PureSubstitution ==
    page.pc = "write" =>
      /\ \A k \in 1..Len(page.replacements) : \A a \in 0..Len(page.input) :
           LET key  == page.replacements[k].key
               b    == a + Len(key)
               pre  == SubSeq(page.input, 1, a)
               post == SubSeq(page.input, b + 1, Len(page.input))
           IN  ( /\ b <= Len(page.input)
                 /\ SubSeq(page.input, a + 1, b) = key
                 /\ Range(pre) \cap KeyTokens = {}
                 /\ Range(post) \cap KeyTokens = {} )
               => page.manpage = pre \o page.replacements[k].value \o post
      /\ (\A k \in 1..Len(page.replacements) :
             ~Occurs(page.replacements[k].key, page.input))
           => page.manpage = page.input

----------------------------------------------------------------------------
(* Properties of the command discovery. *)

HeaderLines(fn) == {k \in 1..Len(help) : strip(help[k]) = Header(fn)}

\* The expected layout: the header occurs at most once, and every line that
\* is not blank reaches the name column.
ExpectedLayout(fn) ==
    /\ Cardinality(HeaderLines(fn)) <= 1
    /\ \A k \in 1..Len(help) : help[k] = << >> \/ Len(help[k]) >= NameColumn

\* The first tokens of the lines after the header line and before the next
\* blank line whose character at the name column is not blank, in order.
ExpectedTokens(fn) ==
    IF HeaderLines(fn) = {}
    THEN << >>
    ELSE LET h      == CHOOSE k \in HeaderLines(fn) : TRUE
             blanks == {k \in (h + 1)..Len(help) : help[k] = << >>}
             end    == IF blanks = {} THEN Len(help) + 1
                       ELSE CHOOSE k \in blanks : \A b \in blanks : k <= b
             block  == SubSeq(help, h + 1, end - 1)
             Named(line) == line[NameColumn] # " "
             named  == SelectSeq(block, Named)
         IN  [k \in 1..Len(named) |-> FirstToken(named[k])]

\* C7: on a help text of the expected layout both functions return normally,
\* and what they return starts with exactly the expected first tokens (for
\* external_commands followed by nothing but "<command> <subcommand>"
\* entries); this is the empty list when the header is absent or a blank line
\* follows it at once.
C7_FirstTokensAfterHeader ==
    (scan.fn # "None" /\ ExpectedLayout(scan.fn)) =>
      /\ scan.error \notin {"IndexError", "ValueError"}
      /\ scan.pc = "returned" =>
           LET e == ExpectedTokens(scan.fn)
           IN  /\ Len(scan.commands) >= Len(e)
               /\ SubSeq(scan.commands, 1, Len(e)) = e
               /\ \A k \in (Len(e) + 1)..Len(scan.commands) :
                    /\ scan.fn = "external_commands"
                    /\ " " \in Range(scan.commands[k])

====
